---- MODULE Spec2Model ----
(***************************************************************************)
(* Model of ClaudeCodeService (src/src/services/claude-code.ts): the       *)
(* session registry (a Map from session id to a session object), the       *)
(* query executor (executeQuery, one asynchronous invocation per call,     *)
(* suspended at every step of the external stream) and the registry        *)
(* maintenance operations (createSession, cleanupSessions, stop).          *)
(*                                                                         *)
(* Session objects live in a heap (objs) and are referred to by index, so  *)
(* that an invocation keeps writing to the object it resolved when it      *)
(* started, also after the registry dropped or replaced that object.       *)
(* JavaScript runs each synchronous stretch of code atomically: one action *)
(* is one such stretch (a whole synchronous method, or the part of         *)
(* executeQuery between two suspensions of its for-await loop).            *)
(***************************************************************************)
EXTENDS Integers, Sequences, FiniteSets, TLC

\* ---------------------------------------------------------------- bounds
MaxTime == 2        \* the clock (Date.now()) runs over 0..MaxTime
MaxAge == 1         \* cleanupSessions is called with maxAge in 1..MaxAge
MaxInv == 2         \* executeQuery invocations made in one behaviour
MaxObjs == 2        \* session objects ever constructed
MaxMsgs == 2        \* messages the external streams emit in one behaviour
MaxRand == 2        \* distinct outcomes of the random suffix of an id

\* ---------------------------------------------------------------- inputs
NoId == <<"undefined", 0, 0>>       \* options.sessionId absent (or falsy)
UserIds == {<<"user", 0, 1>>}       \* ids chosen by callers
WorkingDirs == {"/w"}               \* options.workingDirectory
Dirs == {"/w", "/v"}                \* options.workingDirectory, where it matters
MsgTypes == {"assistant"}           \* SDKMessage.type
Errors == {"Error"}                 \* what a failing stream throws
AbortError == "AbortError"          \* what an aborted stream throws
Undefined == "undefined"

VARIABLES
    now,        \* Date.now()
    objs,       \* heap of ClaudeCodeSession objects, a reference is an index
    sessions,   \* this.sessions: the Map, as its entries in insertion order
    inv,        \* the executeQuery invocations, by invocation number
    last,       \* the service method that has just returned, if the last step
                \* was a synchronous call, with its argument and return value
    apiKey,     \* process.env.ANTHROPIC_API_KEY is set
    service,    \* the service of the runtime: none, started, failed (start threw)
    defaultOptions  \* this.defaultOptions

vars == <<now, objs, sessions, inv, last, apiKey, service, defaultOptions>>

\* what no method of the service writes
env == <<apiKey, service, defaultOptions>>

Invs == 1..MaxInv

\* ------------------------------------------------------------ Map helpers
\* Map.prototype.has
Has(m, id) == \E k \in 1..Len(m) : m[k].id = id

\* Map.prototype.get: the reference stored under id, 0 for undefined
Get(m, id) ==
    IF Has(m, id) THEN m[CHOOSE k \in 1..Len(m) : m[k].id = id].ref ELSE 0

\* an existing key keeps its value
Set_keepsExisting(m, id, ref) ==
    IF Has(m, id) THEN m ELSE Append(m, [id |-> id, ref |-> ref])

\* Map.prototype.set: an existing key keeps its place, a new key goes last
Set(m, id, ref) ==
    IF Has(m, id)
    THEN [k \in 1..Len(m) |-> IF m[k].id = id THEN [id |-> id, ref |-> ref] ELSE m[k]]
    ELSE Append(m, [id |-> id, ref |-> ref])

\* the ids under which something is registered
Keys(m) == {m[k].id : k \in 1..Len(m)}

\* the objects that are registered
Refs(m) == {m[k].ref : k \in 1..Len(m)}

\* ------------------------------------------------------ generateSessionId
\* `claude-${Date.now()}-${Math.random().toString(36).substring(2, 9)}`:
\* the clock and a random suffix r, nothing else
generateSessionId(r) == <<"claude", now, r>>

\* sessionId || this.generateSessionId()
ResolveId(sidOpt, r) == IF sidOpt # NoId THEN sidOpt ELSE generateSessionId(r)

\* what a caller passes as session id: nothing, or an id of its own
SessionIdArgs == {NoId} \cup UserIds

\* ---------------------------------------------------------- createSession
\* the object literal of createSession
NewSession(id, workingDirectory) ==
    [id |-> id, startedAt |-> now, lastActivityAt |-> now, messages |-> <<>>,
     aborted |-> FALSE, status |-> "idle", workingDirectory |-> workingDirectory]

\* ---------------------------------------------------------------- options
\* An optional number is <<>> when absent and <<n>> when it is n; an optional
\* string is Undefined when absent.
DefaultMaxTurns == 10
MinTurns == 1
MaxTurns == 50

\* JavaScript's x || d for an optional number: d when x is absent or 0
OrNumber(x, d) == IF x = <<>> \/ x = <<0>> THEN <<d>> ELSE x

\* JavaScript's x || d for an optional string
OrString(x, d) == IF x = Undefined THEN d ELSE x

\* index.ts, configSchema.MAX_TURNS: default 10, then
\* Math.max(1, Math.min(val, 50))
ClampTurns(x) ==
    LET val == IF x = <<>> THEN DefaultMaxTurns ELSE x[1]
        low == IF val < MaxTurns THEN val ELSE MaxTurns
    IN <<IF low > MinTurns THEN low ELSE MinTurns>>

\* index.ts, configSchema.PERMISSION_MODE: default 'acceptEdits'
DefaultMode(x) == IF x = Undefined THEN "acceptEdits" ELSE x

\* the number of turns a configuration or a caller asks for
TurnValues == {<<>>, <<0 - 1>>, <<0>>, <<1>>, <<MaxTurns>>, <<MaxTurns + 1>>}

\* runtime.getSetting('CLAUDE_CODE_CONFIG'): nothing, or the configuration
\* the plugin validated with configSchema
NoSetting == [MAX_TURNS |-> <<>>, PERMISSION_MODE |-> Undefined]
Settings ==
    {NoSetting} \cup
    {[MAX_TURNS |-> ClampTurns(t), PERMISSION_MODE |-> DefaultMode(p)] :
        t \in TurnValues, p \in {Undefined, "plan"}}

\* the constructor, lines 42-46
DefaultOptions(config) ==
    [maxTurns |-> OrNumber(config.MAX_TURNS, DefaultMaxTurns),
     permissionMode |-> OrString(config.PERMISSION_MODE, "acceptEdits")]

\* the fields of QueryOptions that configure the external call
NoOptions ==
    [maxTurns |-> <<>>, permissionMode |-> Undefined, systemPrompt |-> Undefined,
     allowedTools |-> Undefined, disallowedTools |-> Undefined,
     outputFormat |-> Undefined]
Options ==
    [maxTurns : TurnValues, permissionMode : {Undefined, "plan"},
     systemPrompt : {Undefined, "be brief"}, allowedTools : {Undefined, "Read"},
     disallowedTools : {Undefined, "Bash"}, outputFormat : {Undefined, "json"}]

\* lines 107-112: { ...this.defaultOptions, ...options }, field by field
Merged(options, field) ==
    IF options[field] # NoOptions[field] THEN options[field]
    ELSE IF field \in DOMAIN defaultOptions THEN defaultOptions[field]
    ELSE NoOptions[field]

\* lines 121-127: what query() is called with, next to the prompt: the
\* session's abort controller and options: { maxTurns }
QueryArgs(options, ref) ==
    [abortController |-> ref,
     maxTurns |-> OrNumber(Merged(options, "maxTurns"), DefaultMaxTurns),
     permissionMode |-> Undefined, systemPrompt |-> Undefined,
     allowedTools |-> Undefined, disallowedTools |-> Undefined,
     outputFormat |-> Undefined]

\* query() not called yet
NotQueried ==
    [abortController |-> 0, maxTurns |-> <<>>, permissionMode |-> Undefined,
     systemPrompt |-> Undefined, allowedTools |-> Undefined,
     disallowedTools |-> Undefined, outputFormat |-> Undefined]

\* An executeQuery invocation: where it stands (pc: init, running, returned,
\* threw), its locals (options.sessionId as passed, the other options,
\* sessionId, session, messages), what it called query() with (call), what it
\* returned or threw, and what its external stream did; for the record, the
\* transcript its session held when it started (before) and whether another
\* invocation has been in flight on that session object at the same time
\* (emitted: the messages it yielded, raised: what it threw, cancelled: its
\* abort controller fired while the invocation was in flight)
NotCalled ==
    [pc |-> "init", arg |-> NoId, workingDirectory |-> Undefined,
     options |-> NoOptions,
     call |-> NotQueried, sessionId |-> NoId, session |-> 0,
     messages |-> <<>>, result |-> Undefined, error |-> Undefined,
     emitted |-> <<>>, raised |-> Undefined, cancelled |-> FALSE,
     before |-> <<>>, overlapped |-> FALSE, finishedAt |-> 0]

\* no synchronous call has just returned; n counts what the call did (the
\* sessions cleanupSessions deleted, the abort controllers stop fired)
NoCall ==
    [op |-> "none", sessionId |-> NoId, maxAge |-> 0, ret |-> 0, n |-> 0]

Init ==
    /\ now = 0
    /\ objs = <<>>
    /\ sessions = <<>>
    /\ inv = [i \in Invs |-> NotCalled]
    /\ last = NoCall
    /\ apiKey = TRUE
    /\ service = "started"
    /\ defaultOptions = DefaultOptions(NoSetting)

\* ----------------------------------------------------------------- start
\* what start throws when the key is missing
ConfigError == "ANTHROPIC_API_KEY environment variable is not set"

\* the key is not looked at
KeyMissing_ignored(key) == FALSE

\* line 54: !process.env.ANTHROPIC_API_KEY
KeyMissing(key) == ~key

\* static start(runtime): construct the service, with its empty Map, then
\* validate the key; the service is returned only when the key is set
start ==
    /\ service = "none"
    /\ sessions' = <<>>
    /\ defaultOptions' = DefaultOptions(NoSetting)
    /\ IF KeyMissing(apiKey)
       THEN /\ service' = "failed"
            /\ last' = [NoCall EXCEPT !.op = "start", !.ret = ConfigError]
       ELSE /\ service' = "started"
            /\ last' = [NoCall EXCEPT !.op = "start", !.ret = "service"]
    /\ UNCHANGED <<now, objs, inv, apiKey>>

\* before start: no service yet, the key set or not
InitStart ==
    /\ now = 0
    /\ objs = <<>>
    /\ sessions = <<>>
    /\ inv = [i \in Invs |-> NotCalled]
    /\ last = NoCall
    /\ apiKey \in BOOLEAN
    /\ service = "none"
    /\ defaultOptions = DefaultOptions(NoSetting)

\* time passes between two synchronous stretches
Tick ==
    /\ now < MaxTime
    /\ now' = now + 1
    /\ last' = NoCall
    /\ UNCHANGED <<objs, sessions, inv, env>>

\* createSession(sessionId?, workingDirectory?) called by a client
createSession(sidOpt, workingDirectory, r) ==
    /\ Len(objs) < MaxObjs
    /\ LET id == ResolveId(sidOpt, r)
           ref == Len(objs) + 1
       IN /\ objs' = Append(objs, NewSession(id, workingDirectory))
          /\ sessions' = Set(sessions, id, ref)
          /\ last' = [op |-> "createSession", sessionId |-> sidOpt, maxAge |-> 0,
                      ret |-> ref, n |-> 0]
    /\ UNCHANGED <<now, inv, env>>

\* --------------------------------------------------------- executeQuery
\* lines 100-101: session.status = 'running'; session.lastActivityAt = new Date()
MarkRunning(s) == [s EXCEPT !.status = "running", !.lastActivityAt = now]

\* the status is left as it was
MarkCompleted_forgotten(s) == s

\* line 137: session.status = 'completed'
MarkCompleted(s) == [s EXCEPT !.status = "completed"]

\* the catch block leaves the status as it was
MarkError_forgotten(s) == s

\* the catch block records a completion
MarkError_completed(s) == [s EXCEPT !.status = "completed"]

\* line 144: session.status = 'error'
MarkError(s) == [s EXCEPT !.status = "error"]

\* the message is kept back from the transcript
PushTranscript_buffered(s, message) == s

\* the message is put in front of the transcript
PushTranscript_unshift(s, message) == [s EXCEPT !.messages = <<message>> \o @]

\* line 129: session.messages.push(message)
PushTranscript(s, message) == [s EXCEPT !.messages = Append(@, message)]

\* line 128: messages.push(message)
PushResult(messages, message) == Append(messages, message)

\* the whole transcript of the session is returned
ReturnValue_transcript(i) == objs[inv[i].session].messages

\* line 142: return messages
ReturnValue(i) == inv[i].messages

\* a new error is thrown in place of the one caught
Rethrow_wrapped(error) == "QueryFailed"

\* line 146: throw error
Rethrow(error) == error

\* an invocation is in flight from its call until it returns or throws
InFlight(i) == inv[i].pc = "running"

\* the session found takes the working directory of the options
Existing_redirected(s, workingDirectory) ==
    [s EXCEPT !.workingDirectory = workingDirectory]

\* lines 91-97: a session found in the Map is used as it is,
\* options.workingDirectory goes to createSession only
Existing(s, workingDirectory) == s

\* an invocation is in flight on the session object ref
Busy(ref) == \E j \in Invs : InFlight(j) /\ inv[j].session = ref

\* executeQuery(prompt, options) up to the first suspension of the for-await
\* loop: the session is resolved or created, marked running and handed, with
\* its abort controller, to query()
executeQueryStart(i, sidOpt, workingDirectory, r, options) ==
    /\ inv[i].pc = "init"
    /\ \A j \in 1..(i - 1) : inv[j].pc # "init"
    /\ LET sessionId == ResolveId(sidOpt, r)
           found == Get(sessions, sessionId)
           ref == IF found # 0 THEN found ELSE Len(objs) + 1
           created == IF found # 0
                      THEN [objs EXCEPT ![found] = Existing(@, workingDirectory)]
                      ELSE Append(objs, NewSession(sessionId, workingDirectory))
           registry == IF found # 0 THEN sessions
                       ELSE Set(Set(sessions, sessionId, ref), sessionId, ref)
       IN /\ found = 0 => Len(objs) < MaxObjs
          /\ objs' = [created EXCEPT ![ref] = MarkRunning(@)]
          /\ sessions' = registry
          /\ inv' = [j \in Invs |->
                IF j = i
                THEN [inv[i] EXCEPT !.pc = "running",
                                    !.arg = sidOpt,
                                    !.workingDirectory = workingDirectory,
                                    !.options = options,
                                    !.call = QueryArgs(options, ref),
                                    !.sessionId = sessionId,
                                    !.session = ref,
                                    !.before = created[ref].messages,
                                    !.overlapped = Busy(ref)]
                ELSE IF InFlight(j) /\ inv[j].session = ref
                     THEN [inv[j] EXCEPT !.overlapped = TRUE]
                     ELSE inv[j]]
          /\ last' = NoCall
    /\ UNCHANGED <<now, env>>

\* The external stream: query() of @anthropic-ai/claude-code, a library that
\* is not part of this repository. It emits messages one at a time and ends
\* by closing or by throwing. What it does once the abort controller it was
\* given has fired is taken from the specification (5, Cancellation): it may
\* still emit what it had, it no longer closes normally, it ends by throwing.

\* the number of messages all streams have emitted so far
Emitted == LET RECURSIVE sum(_)
               sum(i) == IF i = 0 THEN 0 ELSE Len(inv[i].emitted) + sum(i - 1)
           IN sum(MaxInv)

\* the stream of invocation i can emit one more message
StreamCanYield(i) == InFlight(i) /\ Emitted < MaxMsgs

\* the stream of invocation i can close normally
StreamCanClose(i) == InFlight(i) /\ ~objs[inv[i].session].aborted

\* a stream whose abort controller has fired stays open for ever
StreamCanThrow_unlessAborted(i, error) ==
    /\ InFlight(i)
    /\ error # AbortError
    /\ ~objs[inv[i].session].aborted

\* the stream of invocation i can throw error
StreamCanThrow(i, error) ==
    /\ InFlight(i)
    /\ error = AbortError <=> objs[inv[i].session].aborted

\* one iteration of the for-await loop, lines 121-135
streamYield(i, type) ==
    /\ StreamCanYield(i)
    /\ LET message == [inv |-> i, seq |-> Len(inv[i].emitted) + 1, type |-> type]
       IN /\ inv' = [inv EXCEPT ![i] = [@ EXCEPT !.messages = PushResult(@, message),
                                                 !.emitted = Append(@, message)]]
          /\ objs' = [objs EXCEPT ![inv[i].session] = PushTranscript(@, message)]
    /\ last' = NoCall
    /\ UNCHANGED <<now, sessions, env>>

\* the stream closes: lines 137-142
streamDone(i) ==
    /\ StreamCanClose(i)
    /\ objs' = [objs EXCEPT ![inv[i].session] = MarkCompleted(@)]
    /\ inv' = [inv EXCEPT ![i] = [@ EXCEPT !.pc = "returned",
                                           !.result = ReturnValue(i),
                                           !.finishedAt = now]]
    /\ last' = NoCall
    /\ UNCHANGED <<now, sessions, env>>

\* the stream throws: the catch block, lines 143-147
streamThrow(i, error) ==
    /\ StreamCanThrow(i, error)
    /\ objs' = [objs EXCEPT ![inv[i].session] = MarkError(@)]
    /\ inv' = [inv EXCEPT ![i] = [@ EXCEPT !.pc = "threw",
                                           !.raised = error,
                                           !.error = Rethrow(error),
                                           !.finishedAt = now]]
    /\ last' = NoCall
    /\ UNCHANGED <<now, sessions, env>>

\* ------------------------------------------------------------------ stop
\* every session is aborted, whatever its status
ShouldAbort_all(s) == TRUE

\* line 76: if (session.status === 'running')
ShouldAbort(s) == s.status = "running"

\* the Map is left as it is
Clear_forgotten(m) == m

\* line 82: this.sessions.clear()
Clear(m) == <<>>

\* stop(): abort the running sessions, then clear the Map
stop ==
    /\ LET fired == {ref \in Refs(sessions) : ShouldAbort(objs[ref])}
       IN /\ objs' = [k \in 1..Len(objs) |->
                        IF k \in fired THEN [objs[k] EXCEPT !.aborted = TRUE]
                        ELSE objs[k]]
          /\ inv' = [i \in Invs |->
                        IF InFlight(i) /\ inv[i].session \in fired
                        THEN [inv[i] EXCEPT !.cancelled = TRUE] ELSE inv[i]]
          /\ last' = [op |-> "stop", sessionId |-> NoId, maxAge |-> 0, ret |-> 0,
                      n |-> Cardinality(fired)]
    /\ sessions' = Clear(sessions)
    /\ UNCHANGED <<now, env>>

\* ------------------------------------------------------- cleanupSessions
\* the status is not looked at
Stale_anyStatus(s, maxAge) == now - s.lastActivityAt > maxAge

\* lines 195-196: age > maxAge && session.status !== 'running'
Stale(s, maxAge) == now - s.lastActivityAt > maxAge /\ s.status # "running"

\* cleanupSessions(maxAge): collect the stale ids, then delete them; the
\* method has no return statement
cleanupSessions(maxAge) ==
    /\ LET sessionsToRemove ==
               SelectSeq(sessions, LAMBDA e : Stale(objs[e.ref], maxAge))
           remaining ==
               SelectSeq(sessions, LAMBDA e :
                   \A k \in 1..Len(sessionsToRemove) : sessionsToRemove[k].id # e.id)
       IN /\ sessions' = remaining
          /\ last' = [NoCall EXCEPT !.op = "cleanupSessions", !.maxAge = maxAge,
                                        !.ret = Undefined,
                                        !.n = Len(sessionsToRemove)]
    /\ UNCHANGED <<now, objs, inv, env>>

\* ------------------------------------------------------------ the reads
\* Array.from(this.sessions.values()): the registered objects, in Map order
Values(m) == [k \in 1..Len(m) |-> m[k].ref]

\* sessions.filter(s => s.status === status).length
CountStatus(status) ==
    Len(SelectSeq(Values(sessions), LAMBDA ref : objs[ref].status = status))

\* activeSessions counts what getActiveSessions returns
StatusRecord_activeWithIdle ==
    [totalSessions |-> Len(Values(sessions)),
     activeSessions |-> CountStatus("running") + CountStatus("idle"),
     idleSessions |-> CountStatus("idle"),
     completedSessions |-> CountStatus("completed"),
     errorSessions |-> CountStatus("error"),
     apiKeyConfigured |-> apiKey]

\* lines 215-223: the object getStatus returns
StatusRecord ==
    [totalSessions |-> Len(Values(sessions)),
     activeSessions |-> CountStatus("running"),
     idleSessions |-> CountStatus("idle"),
     completedSessions |-> CountStatus("completed"),
     errorSessions |-> CountStatus("error"),
     apiKeyConfigured |-> apiKey]

\* getStatus()
getStatus ==
    /\ last' = [NoCall EXCEPT !.op = "getStatus", !.ret = StatusRecord]
    /\ UNCHANGED <<now, objs, sessions, inv, env>>

\* only the running sessions are kept
IsActive_runningOnly(s) == s.status = "running"

\* line 183: session.status === 'running' || session.status === 'idle'
IsActive(s) == s.status = "running" \/ s.status = "idle"

\* getActiveSessions(): the registered objects that pass the filter
getActiveSessions ==
    /\ last' = [op |-> "getActiveSessions", sessionId |-> NoId, maxAge |-> 0,
                ret |-> SelectSeq(Values(sessions), LAMBDA ref : IsActive(objs[ref])),
                n |-> 0]
    /\ UNCHANGED <<now, objs, sessions, inv, env>>

\* the ids a caller looks up: its own and those of the registered sessions
LookupIds == UserIds \cup Keys(sessions)

\* a session is created when none is registered under the id
getSession_orCreate(sessionId) ==
    /\ Len(objs) < MaxObjs
    /\ objs' = IF Has(sessions, sessionId) THEN objs
               ELSE Append(objs, NewSession(sessionId, Undefined))
    /\ sessions' = IF Has(sessions, sessionId) THEN sessions
                   ELSE Set(sessions, sessionId, Len(objs) + 1)
    /\ last' = [op |-> "getSession", sessionId |-> sessionId, maxAge |-> 0,
                ret |-> Get(sessions', sessionId), n |-> 0]
    /\ UNCHANGED <<now, inv, env>>

\* getSession(sessionId): this.sessions.get(sessionId), 0 for undefined
getSession(sessionId) ==
    /\ last' = [op |-> "getSession", sessionId |-> sessionId, maxAge |-> 0,
                ret |-> Get(sessions, sessionId), n |-> 0]
    /\ UNCHANGED <<now, objs, sessions, inv, env>>

Next ==
    \/ Tick
    \/ \E sidOpt \in SessionIdArgs, wd \in WorkingDirs, r \in 1..MaxRand :
          createSession(sidOpt, wd, r)
    \/ \E i \in Invs, sidOpt \in SessionIdArgs, wd \in WorkingDirs,
          r \in 1..MaxRand : executeQueryStart(i, sidOpt, wd, r, NoOptions)
    \/ \E i \in Invs, type \in MsgTypes : streamYield(i, type)
    \/ \E i \in Invs : streamDone(i)
    \/ \E i \in Invs, error \in Errors \cup {AbortError} : streamThrow(i, error)
    \/ stop
    \/ \E maxAge \in 1..MaxAge : cleanupSessions(maxAge)

Spec == Init /\ [][Next]_vars

\* the service with the calls that only read it
NextObserve ==
    \/ Next
    \/ getStatus
    \/ getActiveSessions
    \/ \E sessionId \in LookupIds : getSession(sessionId)

SpecObserve == Init /\ [][NextObserve]_vars

\* the service from before its start: its methods can be called once start
\* has returned it
NextStart ==
    \/ start
    \/ service = "started" /\ Next

SpecStart == InitStart /\ [][NextStart]_vars

\* the service constructed under any setting, and queries with any options
InitConfig ==
    /\ now = 0
    /\ objs = <<>>
    /\ sessions = <<>>
    /\ inv = [i \in Invs |-> NotCalled]
    /\ last = NoCall
    /\ apiKey = TRUE
    /\ service = "started"
    /\ defaultOptions \in {DefaultOptions(config) : config \in Settings}

NextConfig ==
    \E i \in Invs, sidOpt \in UserIds, wd \in WorkingDirs, options \in Options :
        executeQueryStart(i, sidOpt, wd, 1, options)

SpecConfig == InitConfig /\ [][NextConfig]_vars

\* the service used with more than one working directory, the clock standing
NextDirs ==
    \/ \E sidOpt \in SessionIdArgs, wd \in Dirs, r \in 1..MaxRand :
          createSession(sidOpt, wd, r)
    \/ \E i \in Invs, sidOpt \in SessionIdArgs, wd \in Dirs, r \in 1..MaxRand :
          executeQueryStart(i, sidOpt, wd, r, NoOptions)
    \/ \E i \in Invs, type \in MsgTypes : streamYield(i, type)
    \/ \E i \in Invs : streamDone(i)
    \/ \E i \in Invs, error \in Errors \cup {AbortError} : streamThrow(i, error)
    \/ stop

SpecDirs == Init /\ [][NextDirs]_vars

\* the stream of invocation i ends, and executeQuery runs on to its return or
\* to its throw
streamEnds(i) ==
    streamDone(i) \/ \E error \in Errors \cup {AbortError} : streamThrow(i, error)

\* where each invocation stands
pcs == [i \in Invs |-> inv[i].pc]

\* every external stream is finite: one that can end does end, and the event
\* loop then resumes the executeQuery that awaits it
SpecFinite == Init /\ [][Next]_vars /\ \A i \in Invs : WF_pcs(streamEnds(i))

\* ================================================================ claims
\* the messages of a transcript that invocation i appended
Own(transcript, i) == SelectSeq(transcript, LAMBDA m : m.inv = i)

\* the step is the start, the normal return, the throw of invocation i
Starts(i) == inv[i].pc = "init" /\ inv'[i].pc = "running"
Returns(i) == inv[i].pc = "running" /\ inv'[i].pc = "returned"
Throws(i) == inv[i].pc = "running" /\ inv'[i].pc = "threw"

\* C1: what executeQuery returns is exactly the sequence of messages its
\* external stream emitted during that invocation, in emission order, and
\* nothing of what the session's transcript held before.
C1_ReturnsOwnMessages ==
    \A i \in Invs : inv[i].pc = "returned" =>
        /\ inv[i].result = inv[i].emitted
        /\ \A k \in 1..Len(inv[i].result) :
              inv[i].result[k].inv = i /\ inv[i].result[k].seq = k

\* a query returned its one message on a reused session whose transcript
\* already held a message of an earlier query
C1_Witness ==
    \E i \in Invs :
        /\ inv[i].pc = "returned"
        /\ Len(inv[i].result) = 1
        /\ Len(objs[inv[i].session].messages) = 2
        /\ objs[inv[i].session].messages[1].inv # i

\* C2: right after an executeQuery invocation starts its session is running,
\* right after it returns its session is completed, right after it throws
\* its session is error.
C2_StatusFollowsQuery ==
    [][\A i \in Invs :
          /\ Starts(i) => objs'[inv'[i].session].status = "running"
          /\ Returns(i) => objs'[inv[i].session].status = "completed"
          /\ Throws(i) => objs'[inv[i].session].status = "error"]_vars

\* one query has returned, then another, on the same session, has thrown
C2_Witness ==
    /\ inv[1].pc = "returned"
    /\ inv[2].pc = "threw"
    /\ inv[2].session = inv[1].session
    /\ objs[inv[2].session].status = "error"

\* C3: when the external stream throws after emitting k messages, executeQuery
\* throws that same error and returns nothing, the session's status is error
\* and the transcript is left as it was, the k messages in it; they stay in
\* the transcript from then on.
C3_ThrowKeepsPartial ==
    /\ [][\A i \in Invs : Throws(i) =>
             /\ inv'[i].error = inv'[i].raised
             /\ inv'[i].result = Undefined
             /\ objs'[inv[i].session].status = "error"
             /\ objs'[inv[i].session].messages = objs[inv[i].session].messages]_vars
    /\ [](\A i \in Invs : inv[i].pc = "threw" =>
             /\ inv[i].error = inv[i].raised
             /\ Own(objs[inv[i].session].messages, i) = inv[i].emitted)

\* a stream threw after its first message, on a new session: status error,
\* transcript of length 1
C3_Witness ==
    \E i \in Invs :
        /\ inv[i].pc = "threw"
        /\ inv[i].error = "Error"
        /\ Len(inv[i].emitted) = 1
        /\ objs[inv[i].session].status = "error"
        /\ objs[inv[i].session].messages = inv[i].emitted

\* C4: no two executeQuery invocations are in flight on the same session id
\* at the same time.
C4_OneInFlightPerSession ==
    \A i, j \in Invs :
        i # j /\ InFlight(i) /\ InFlight(j) => inv[i].sessionId # inv[j].sessionId
\* the step is a call of cleanupSessions(last'.maxAge), of stop()
Cleans == last'.op = "cleanupSessions"
Stops == last'.op = "stop"

\* C5: cleanupSessions(maxAge) removes a session if and only if
\* now - lastActivityAt > maxAge and its status is not running; what stays
\* keeps its place in the registry and no session object changes.
C5_CleanupRemovesStaleIdle ==
    [][Cleans =>
          /\ sessions' = SelectSeq(sessions, LAMBDA e :
                ~(/\ now - objs[e.ref].lastActivityAt > last'.maxAge
                  /\ objs[e.ref].status # "running"))
          /\ objs' = objs]_vars

\* cleanupSessions has just removed a session and kept a running one that is
\* older than maxAge
C5_Witness ==
    /\ last.op = "cleanupSessions"
    /\ last.n = 1
    /\ \E e \in Refs(sessions) :
          /\ objs[e].status = "running"
          /\ now - objs[e].lastActivityAt > last.maxAge

\* C6: cleanupSessions returns the number of sessions it removed.
C6_CleanupReturnsCount ==
    last.op = "cleanupSessions" => last.ret # Undefined /\ last.ret = last.n

\* C7: cleanupSessions never removes a session on which an executeQuery
\* invocation is in flight.
C7_CleanupSparesInFlight ==
    [][Cleans =>
          \A i \in Invs :
              InFlight(i) /\ inv[i].session \in Refs(sessions)
                  => inv[i].session \in Refs(sessions')]_vars

\* C8: stop() fires the abort controller of the registered sessions that are
\* running, of no other session, and leaves the registry empty.
C8_StopAbortsRunningAndClears ==
    [][Stops =>
          /\ sessions' = <<>>
          /\ Len(objs') = Len(objs)
          /\ \A k \in 1..Len(objs) :
                objs'[k].aborted =
                    (objs[k].aborted
                       \/ (k \in Refs(sessions) /\ objs[k].status = "running"))]_vars

\* stop() has just fired the abort controller of a running session and left
\* alone that of a session that was not running
C8_Witness ==
    /\ last.op = "stop"
    /\ last.n = 1
    /\ sessions = <<>>
    /\ \E k \in 1..Len(objs) : objs[k].aborted /\ objs[k].status = "running"
    /\ \E k \in 1..Len(objs) : ~objs[k].aborted /\ objs[k].status = "completed"

\* C9: an executeQuery invocation whose session's abort controller fired while
\* it was in flight ends by throwing, and the status of its session is error
\* once it has ended, never completed.
C9_CancelledEndsInError ==
    \A i \in Invs : inv[i].cancelled /\ ~InFlight(i) =>
        /\ inv[i].pc = "threw"
        /\ inv[i].error = AbortError
        /\ objs[inv[i].session].status = "error"

\* an invocation was cancelled after its first message and has ended
C9_Witness ==
    \E i \in Invs :
        /\ inv[i].cancelled
        /\ inv[i].pc = "threw"
        /\ Len(inv[i].emitted) = 1

\* C10: executeQuery with a registered sessionId reuses that session and adds
\* no registry entry; with an unregistered sessionId it creates a session under
\* that id; with no sessionId it creates a session under a new id.
C10_ResolveOrCreate ==
    [][\A i \in Invs : Starts(i) =>
          LET arg == inv'[i].arg
              ref == inv'[i].session
              reused ==
                  /\ ref = Get(sessions, inv'[i].sessionId)
                  /\ sessions' = sessions
                  /\ Len(objs') = Len(objs)
                  /\ objs'[ref].messages = objs[ref].messages
                  /\ objs'[ref].aborted = objs[ref].aborted
                  /\ objs'[ref].startedAt = objs[ref].startedAt
              created ==
                  /\ Len(objs') = Len(objs) + 1
                  /\ ref = Len(objs')
                  /\ objs'[ref].id = inv'[i].sessionId
                  /\ objs'[ref].messages = <<>>
                  /\ ~Has(sessions, inv'[i].sessionId)
                  /\ Get(sessions', inv'[i].sessionId) = ref
          IN /\ arg # NoId /\ Has(sessions, arg) => inv'[i].sessionId = arg /\ reused
             /\ arg # NoId /\ ~Has(sessions, arg) => inv'[i].sessionId = arg /\ created
             /\ arg = NoId => created]_vars
\* the registered objects whose status is one of statuses
Registered(statuses) == {ref \in Refs(sessions) : objs[ref].status \in statuses}

\* the place of an object in the registry
Place(ref) == CHOOSE k \in 1..Len(sessions) : sessions[k].ref = ref

\* C11: in what getStatus returns, totalSessions is the sum of idleSessions,
\* activeSessions, completedSessions and errorSessions, and each of the four
\* is the number of registered sessions with that status.
C11_StatusCountsAddUp ==
    last.op = "getStatus" =>
        LET r == last.ret
        IN /\ r.totalSessions = r.idleSessions + r.activeSessions
                                  + r.completedSessions + r.errorSessions
           /\ r.totalSessions = Len(sessions)
           /\ r.idleSessions = Cardinality(Registered({"idle"}))
           /\ r.activeSessions = Cardinality(Registered({"running"}))
           /\ r.completedSessions = Cardinality(Registered({"completed"}))
           /\ r.errorSessions = Cardinality(Registered({"error"}))

\* getStatus has just counted an idle and an error session
C11_Witness ==
    /\ last.op = "getStatus"
    /\ last.ret.totalSessions = 2
    /\ last.ret.idleSessions = 1
    /\ last.ret.errorSessions = 1

C14_GeneratedIdsDistinct ==
    /\ \A k, l \in 1..Len(objs) :
          k # l /\ objs[k].id[1] = "claude" => objs[k].id # objs[l].id
    /\ \A i, j \in Invs :
          i # j /\ inv[i].pc # "init" /\ inv[j].pc # "init"
                /\ inv[i].arg = NoId /\ inv[j].arg = NoId
              => inv[i].sessionId # inv[j].sessionId

\* C15: createSession returns a new session that is idle, with an empty
\* transcript and an abort controller that has not fired, registered under
\* its id in place of whatever was registered there; every other registry
\* entry and every other session object is as it was.
C15_CreateSessionRegistersFresh ==
    [][last'.op = "createSession" =>
          LET ref == last'.ret
              id == objs'[ref].id
          IN /\ ref = Len(objs) + 1
             /\ Len(objs') = ref
             /\ last'.sessionId # NoId => id = last'.sessionId
             /\ objs'[ref].status = "idle"
             /\ objs'[ref].messages = <<>>
             /\ ~objs'[ref].aborted
             /\ \A k \in 1..Len(objs) : objs'[k] = objs[k]
             /\ Keys(sessions') = Keys(sessions) \cup {id}
             /\ Get(sessions', id) = ref
             /\ \A k \in 1..Len(sessions) :
                   sessions[k].id # id => sessions'[k] = sessions[k]]_vars

\* createSession has just replaced the session registered under its id, which
\* a query had used, by a new one
C15_Witness ==
    /\ last.op = "createSession"
    /\ last.ret = 2
    /\ objs[1].id = objs[2].id
    /\ objs[1].status = "completed"
    /\ sessions = <<[id |-> objs[2].id, ref |-> 2]>>
\* C16: with no key configured start raises a configuration error and returns
\* no service, and when it raises no session exists.
C16_StartNeedsKey ==
    /\ ~apiKey => service # "started"
    /\ last.op = "start" /\ ~apiKey => last.ret = ConfigError
    /\ last.op = "start" /\ last.ret = ConfigError =>
          service = "failed" /\ sessions = <<>> /\ objs = <<>>

\* start has just thrown for want of a key
C16_Witness ==
    /\ last.op = "start"
    /\ ~apiKey
    /\ service = "failed"
    /\ last.ret = ConfigError
\* the fields that configure the external call
ConfigFields ==
    {"maxTurns", "permissionMode", "systemPrompt", "allowedTools",
     "disallowedTools", "outputFormat"}

\* C17: what executeQuery hands to the external call is, field by field, the
\* caller's value when the caller gave one and the service default otherwise.
C17_CallGetsMergedOptions ==
    \A i \in Invs : inv[i].pc # "init" =>
        \A field \in ConfigFields :
            inv[i].call[field] =
                IF inv[i].options[field] # NoOptions[field]
                THEN inv[i].options[field]
                ELSE IF field \in DOMAIN defaultOptions
                     THEN defaultOptions[field] ELSE NoOptions[field]

\* C18: the maxTurns handed to the external call is within 1..50.
C18_MaxTurnsInRange ==
    \A i \in Invs : inv[i].pc # "init" =>
        /\ inv[i].call.maxTurns # <<>>
        /\ inv[i].call.maxTurns[1] >= MinTurns
        /\ inv[i].call.maxTurns[1] <= MaxTurns
\* the edges of the status state machine
Edges ==
    {<<"idle", "running">>, <<"running", "completed">>, <<"running", "error">>,
     <<"completed", "running">>, <<"error", "running">>}

\* C19: every change of a session's status is one of the edges idle->running,
\* running->completed, running->error, completed->running, error->running.
C19_StatusEdges ==
    [][\A ref \in 1..Len(objs) :
          objs'[ref].status # objs[ref].status =>
              <<objs[ref].status, objs'[ref].status>> \in Edges]_vars
\* the abort controller of the session object ref has fired
Fired(sessionObjs, ref) == sessionObjs[ref].aborted

\* C20: the abort controller executeQuery hands to query() has not fired; when
\* a session of the same id had its controller fired before, the query runs on
\* a session object created after that one (session objects are numbered in
\* the order of their creation).
C20_NoFiredHandleReused ==
    [][\A i \in Invs : Starts(i) =>
          /\ ~Fired(objs', inv'[i].call.abortController)
          /\ \A ref \in 1..Len(objs) :
                 objs[ref].id = inv'[i].sessionId /\ Fired(objs, ref)
                 => ref < inv'[i].call.abortController]_vars

\* a query runs on a fresh session, its controller not fired, under the id of
\* an earlier session whose controller stop() has fired
C20_Witness ==
    \E i \in Invs, ref \in 1..Len(objs) :
        /\ inv[i].pc = "running"
        /\ ref < inv[i].call.abortController
        /\ objs[ref].id = inv[i].sessionId
        /\ Fired(objs, ref)
        /\ ~Fired(objs, inv[i].call.abortController)
\* C21: the only change a step makes to the transcript of a session object
\* is to append one message at its end: its length never decreases and what
\* it held stays as it was, in the same places.
C21_TranscriptAppendOnly ==
    [][\A ref \in 1..Len(objs) :
          objs'[ref].messages # objs[ref].messages =>
              /\ Len(objs'[ref].messages) = Len(objs[ref].messages) + 1
              /\ SubSeq(objs'[ref].messages, 1, Len(objs[ref].messages))
                     = objs[ref].messages]_vars

\* a message has been appended to a transcript that already held one
C21_Witness ==
    \E ref \in 1..Len(objs) : Len(objs[ref].messages) >= 2
\* C22: while an invocation is in flight on a session object on which no
\* other invocation has been in flight at the same time, the transcript is
\* what it was when the invocation started followed by what the stream has
\* emitted so far.
C22_TranscriptGrowsWithStream ==
    \A i \in Invs : InFlight(i) /\ ~inv[i].overlapped =>
        objs[inv[i].session].messages = inv[i].before \o inv[i].emitted

\* the stream of a lone invocation has emitted a message onto a transcript
\* that held one already, and has not ended
C22_Witness ==
    \E i \in Invs :
        /\ InFlight(i)
        /\ ~inv[i].overlapped
        /\ inv[i].before # <<>>
        /\ inv[i].emitted # <<>>
\* C23: no step changes the workingDirectory of a session object; an
\* executeQuery that finds its session in the Map leaves the session's
\* workingDirectory as it was, whatever options.workingDirectory it is given.
C23_WorkingDirectoryFixed ==
    [][/\ \A ref \in 1..Len(objs) :
             objs'[ref].workingDirectory = objs[ref].workingDirectory
       /\ \A i \in Invs : Starts(i) /\ Has(sessions, inv'[i].sessionId) =>
             objs'[inv'[i].session].workingDirectory
                 = objs[Get(sessions, inv'[i].sessionId)].workingDirectory]_vars

\* a query has run on a session created with another working directory than
\* the one its options named
C23_Witness ==
    \E i \in Invs :
        /\ inv[i].pc # "init"
        /\ inv[i].workingDirectory # objs[inv[i].session].workingDirectory
\* the invocation has returned or thrown
Finished(i) == inv[i].pc \in {"returned", "threw"}

C25_RunningHasQuery ==
    \A ref \in 1..Len(objs) :
        /\ objs[ref].status = "running" => Busy(ref)
        /\ (\E i \in Invs : Finished(i) /\ inv[i].session = ref) /\ ~Busy(ref)
           => objs[ref].status \in {"completed", "error"}

\* two invocations overlapped on one session object and both have ended, the
\* later one by throwing
C25_Witness ==
    \E i, j \in Invs :
        /\ i # j
        /\ inv[i].session = inv[j].session
        /\ inv[i].overlapped
        /\ inv[i].pc = "returned"
        /\ inv[j].pc = "threw"
        /\ objs[inv[j].session].status = "error"
\* C26: when stop() returns, the abort controller of the session of every
\* invocation in flight has fired.
C26_StopCancelsEveryQuery ==
    [][Stops => \A i \in Invs : InFlight(i) => Fired(objs', inv[i].session)]_vars
\* xs ends with ys
EndsWith(xs, ys) ==
    /\ Len(ys) <= Len(xs)
    /\ SubSeq(xs, Len(xs) - Len(ys) + 1, Len(xs)) = ys

\* C27: when executeQuery called with sessionId s returns, the session
\* registered under s has status completed and its transcript ends with the
\* messages returned.
C27_ReturnVisibleUnderId ==
    [][\A i \in Invs : Returns(i) /\ inv[i].arg # NoId =>
          /\ Has(sessions', inv[i].arg)
          /\ objs'[Get(sessions', inv[i].arg)].status = "completed"
          /\ EndsWith(objs'[Get(sessions', inv[i].arg)].messages,
                      inv'[i].result)]_vars
\* the last query on the session object ref ended less than maxAge ago: none
\* is in flight on it and one ended at a time t with now - t < maxAge
EndedWithin(ref, maxAge) ==
    /\ ~Busy(ref)
    /\ \E i \in Invs :
           Finished(i) /\ inv[i].session = ref /\ now - inv[i].finishedAt < maxAge

\* C28: cleanupSessions(maxAge) does not remove a session whose last query
\* ended less than maxAge ago.
C28_RecentlyEndedIsKept ==
    [][Cleans =>
          \A k \in 1..Len(sessions) :
              EndedWithin(sessions[k].ref, last'.maxAge) =>
                  \E l \in 1..Len(sessions') : sessions'[l] = sessions[k]]_vars
====
